---- MODULE Spec2Model ----
(***************************************************************************)
(* A model of cat.structures.Deck (src/cat/structures.py): the card pool   *)
(* of black (prompt) and white (answer) cards.  The deck is a record with  *)
(* the fields of Deck.__slots__; every method is an operator that returns  *)
(* the SET of outcomes the call can have (set.pop() removes an arbitrary   *)
(* element), each outcome holding the deck after the call, the value       *)
(* returned and the exception raised.                                      *)
(***************************************************************************)
EXTENDS Integers, FiniteSets, Sequences, TLC

\* ------------------------------------------------------------------ bounds

\* The largest n passed to draw(n); one more than the white cards there are.
MaxDraw == 4
\* The largest number of cards passed to one discard(*cards) call.
MaxDiscard == 2

\* The black cards a deck may be built from.  Cards are arbitrary hashable
\* Python values; "" is a card whose truth value is False.
BlackUniverse == {"", "Q1", "Q2"}
\* The white cards a deck may be built from.
WhiteUniverse == {"A1", "A2", "A3"}
\* A value that is no white card of any deck.
ForeignCard == "X"

\* ------------------------------------------------------------ Python values

\* Python's None (the value of Deck.current before the first round).
None == "<None>"

\* The truth value Python gives a card or None in `if self.current:`: None
\* and the empty text are false, every other text is true.
Truthy(v) == v # None /\ v # ""

\* No exception: the call returned normally.
NoError == [type |-> "none", msg |-> "", card |-> None]
\* The KeyError set.pop() raises on an empty set (draw, new).
EmptyPoolError == [type |-> "KeyError", msg |-> "pop from an empty set", card |-> None]
\* The KeyError discard() raises, whose message is the repr of the card.
CardNotInPlayError(card) == [type |-> "KeyError", msg |-> "not found in play", card |-> card]
\* What ends a generator whose body executes `raise StopIteration`.
StopIteration == [type |-> "StopIteration", msg |-> "", card |-> None]
RuntimeError == [type |-> "RuntimeError", msg |-> "generator raised StopIteration", card |-> None]

\* ------------------------------------------------------------------ the deck

\* deck:     the Deck object, a record of its __slots__.
\* gen:      the generator iter(deck) returned last: its state (none, created,
\*           suspended, closed) and what ended it; and, for as long as no
\*           reshuffle() or direct new() has come between its steps (clean),
\*           the undrawn black pool it was made on (start) and the cards it
\*           has yielded, in order.
\* last:     the call made last and not yet returned from: its name,
\*           argument, the deck before it, the value returned, the exception.
\* advanced: how many new() calls have succeeded since the deck was built or
\*           last reshuffled.
VARIABLES deck, gen, last, advanced

vars == <<deck, gen, last, advanced>>

\* reshuffle() as it would be without line 106, `self.won = set()`.
reshuffle_KeepsWon(d) ==
    [d EXCEPT !.black = d._black,
              !.white = d._white,
              !.current = None,
              !.discarded = {},
              !.in_play = {}]

\* Deck.reshuffle: fresh copies of the master sets, everything else emptied.
reshuffle(d) ==
    [d EXCEPT !.black = d._black,
              !.white = d._white,
              !.current = None,
              !.discarded = {},
              !.in_play = {},
              !.won = {}]

\* Deck.__init__: the master sets, then reshuffle().
Deck_init(b, w) ==
    reshuffle([_black |-> b, _white |-> w, black |-> {}, current |-> None,
               discarded |-> {}, in_play |-> {}, white |-> {}, won |-> {}])

\* set.pop(): removes and returns an arbitrary element of a non-empty set.
\* The set of [elem, rest] pairs the call may give.
pop(s) == {[elem |-> c, rest |-> s \ {c}] : c \in s}

\* The set comprehension of Deck.draw, {self.white.pop() for i in range(n)}:
\* i pops still to make, from the pool `white`, `drawn` collected so far.  A
\* pop from the emptied pool raises KeyError and abandons the comprehension;
\* the cards popped before it are gone from the pool all the same.
RECURSIVE pop_n(_, _, _)
pop_n(white, drawn, i) ==
    IF i <= 0
    THEN {[white |-> white, drawn |-> drawn, err |-> NoError]}
    ELSE IF white = {}
         THEN {[white |-> white, drawn |-> drawn, err |-> EmptyPoolError]}
         ELSE UNION {pop_n(p.rest, drawn \cup {p.elem}, i - 1) : p \in pop(white)}

\* draw(n) as it would be without line 74, `self.in_play.update(drawn)`.
draw_NoUpdate(d, n) ==
    {[deck |-> [d EXCEPT !.white = p.white],
      ret |-> IF p.err = NoError THEN p.drawn ELSE {}, err |-> p.err]
     : p \in pop_n(d.white, {}, n)}

\* draw(n) as it would be if it stopped at an emptied pool instead of popping
\* from it: range(min(n, len(self.white))).
draw_Clamped(d, n) ==
    {[deck |-> [d EXCEPT !.white = p.white,
                         !.in_play = d.in_play \cup p.drawn],
      ret |-> p.drawn, err |-> NoError]
     : p \in pop_n(d.white, {}, IF n > Cardinality(d.white)
                                 THEN Cardinality(d.white) ELSE n)}

\* draw(n) as it would be if it read the cards without removing them from
\* the pool (for one: iterating the set instead of popping).
draw_Peek(d, n) ==
    {IF p.err = NoError
     THEN [deck |-> [d EXCEPT !.in_play = d.in_play \cup p.drawn],
           ret |-> p.drawn, err |-> NoError]
     ELSE [deck |-> [d EXCEPT !.white = p.white], ret |-> {}, err |-> p.err]
     : p \in pop_n(d.white, {}, n)}

\* draw(n) as it would be if it checked n against the pool before popping:
\* a failing call removes nothing.
draw_Atomic(d, n) ==
    IF n > Cardinality(d.white)
    THEN {[deck |-> d, ret |-> {}, err |-> EmptyPoolError]}
    ELSE {[deck |-> [d EXCEPT !.white = p.white,
                              !.in_play = d.in_play \cup p.drawn],
           ret |-> p.drawn, err |-> NoError]
          : p \in pop_n(d.white, {}, n)}

\* Deck.draw(n): the outcomes [deck, ret, err] of the call.
draw(d, n) ==
    {IF p.err = NoError
     THEN [deck |-> [d EXCEPT !.white = p.white,
                              !.in_play = d.in_play \cup p.drawn],
           ret |-> p.drawn, err |-> NoError]
     ELSE [deck |-> [d EXCEPT !.white = p.white], ret |-> {}, err |-> p.err]
     : p \in pop_n(d.white, {}, n)}

\* new() as it would be if it cleared the current card before the pop:
\* `self.current = None; self.current = self.black.pop()`.
new_ClearsCurrent(d) ==
    LET d1 == IF Truthy(d.current)
              THEN [d EXCEPT !.won = d.won \cup {d.current}, !.current = None]
              ELSE [d EXCEPT !.current = None]
    IN  IF d1.black = {}
        THEN {[deck |-> d1, ret |-> None, err |-> EmptyPoolError]}
        ELSE {[deck |-> [d1 EXCEPT !.black = p.rest, !.current = p.elem],
               ret |-> p.elem, err |-> NoError] : p \in pop(d1.black)}

\* new() as it would be if a new round also retired the cards in play:
\* `self.discarded.update(self.in_play); self.in_play.clear()`.
new_RetiresInPlay(d) ==
    LET d1 == IF Truthy(d.current)
              THEN [d EXCEPT !.won = d.won \cup {d.current}]
              ELSE d
        d2 == [d1 EXCEPT !.discarded = @ \cup d1.in_play, !.in_play = {}]
    IN  IF d2.black = {}
        THEN {[deck |-> d2, ret |-> None, err |-> EmptyPoolError]}
        ELSE {[deck |-> [d2 EXCEPT !.black = p.rest, !.current = p.elem],
               ret |-> p.elem, err |-> NoError] : p \in pop(d2.black)}

\* Deck.new(): `if self.current: self.won.add(self.current)`, then
\* `self.current = self.black.pop()`, whose KeyError leaves current as it was.
new(d) ==
    LET d1 == IF Truthy(d.current)
              THEN [d EXCEPT !.won = d.won \cup {d.current}]
              ELSE d
    IN  IF d1.black = {}
        THEN {[deck |-> d1, ret |-> None, err |-> EmptyPoolError]}
        ELSE {[deck |-> [d1 EXCEPT !.black = p.rest, !.current = p.elem],
               ret |-> p.elem, err |-> NoError] : p \in pop(d1.black)}

\* The loop of Deck.discard from its i-th argument on: in_play.remove(card),
\* re-raising its KeyError with the card named, else discarded.add(card).
RECURSIVE discard_from(_, _, _)
discard_from(d, cards, i) ==
    IF i > Len(cards)
    THEN [deck |-> d, ret |-> None, err |-> NoError]
    ELSE IF cards[i] \notin d.in_play
         THEN [deck |-> d, ret |-> None, err |-> CardNotInPlayError(cards[i])]
         ELSE discard_from([d EXCEPT !.in_play = @ \ {cards[i]},
                                     !.discarded = @ \cup {cards[i]}],
                           cards, i + 1)

\* discard(*cards) as it would be with set.discard for set.remove: a card
\* that is not in play goes to the discarded set without complaint.
discard_Silent(d, cards) ==
    [deck |-> [d EXCEPT !.in_play = @ \ {cards[i] : i \in DOMAIN cards},
                        !.discarded = @ \cup {cards[i] : i \in DOMAIN cards}],
     ret |-> None, err |-> NoError]

\* discard(*cards) as it would be without line 58, `self.discarded.add(card)`.
discard_NoAdd(d, cards) ==
    LET o == discard_from(d, cards, 1)
    IN  [o EXCEPT !.deck.discarded = d.discarded]

\* discard(*cards) as it would be if it validated every card before removing
\* any: a failing call leaves the deck as it was.
discard_AllOrNothing(d, cards) ==
    LET o == discard_from(d, cards, 1)
    IN  IF o.err = NoError THEN o ELSE [o EXCEPT !.deck = d]

\* Deck.discard(*cards): the outcome [deck, ret, err] of the call.
discard(d, cards) == discard_from(d, cards, 1)

\* Deck.__bool__: bool(self.black or (self.current and self.in_play)).
__bool__(d) == d.black # {} \/ (Truthy(d.current) /\ d.in_play # {})

\* The generator as it would be without the test of the pool, `while True:
\* yield self.new()`: the KeyError of new() on the emptied pool ends it.
__next__NoGuard(d) ==
    {[deck |-> o.deck, ret |-> o.ret, err |-> o.err,
      st |-> IF o.err = NoError THEN "suspended" ELSE "closed"]
     : o \in new(d)}

\* One resumption of the generator Deck.__next__ returns (via __iter__):
\* `while self.black: yield self.new()`, then `raise StopIteration`, which ends
\* the generator normally before PEP 479 and as a RuntimeError since (Python
\* 3.7 on).  The outcomes [deck, ret, err, st]; st is the generator's state.
__next__(d) ==
    IF d.black # {}
    THEN {[deck |-> o.deck, ret |-> o.ret, err |-> o.err, st |-> "suspended"]
          : o \in new(d)}
    ELSE {[deck |-> d, ret |-> None, err |-> e, st |-> "closed"]
          : e \in {StopIteration, RuntimeError}}

\* The arguments of a discard call: up to MaxDiscard cards, repeats allowed.
DiscardArgs ==
    UNION {[1..k -> WhiteUniverse \cup {ForeignCard}] : k \in 1..MaxDiscard}

\* ---------------------------------------------------------------- the system

\* The generator's record after a reshuffle() or a direct new(): what it
\* yields from here on is no longer the pool it was made on.
Interleaved(g) ==
    IF g.clean
    THEN [g EXCEPT !.clean = FALSE, !.start = {}, !.yielded = <<>>]
    ELSE g

\* No generator is followed: none was made yet, or the one made last has
\* ended.
NoGenerator ==
    [st |-> "none", end |-> NoError, start |-> {}, yielded |-> <<>>,
     clean |-> FALSE]

\* No call is in progress: the caller has taken the last call's result.
Idle == [op |-> "idle"]

\* A deck built from any black and white cards; no generator yet.
Init ==
    /\ \E b \in SUBSET BlackUniverse, w \in SUBSET WhiteUniverse :
          /\ deck = Deck_init(b, w)
          /\ last = [op |-> "init", arg |-> <<b, w>>, pre |-> deck,
                     ret |-> None, err |-> NoError]
    /\ gen = NoGenerator
    /\ advanced = 0

\* The caller takes the result (or catches the exception) of the last call.
\* A generator that has ended is dropped with it: next() on it runs no code
\* of the deck any more.
Return ==
    /\ last.op # "idle"
    /\ last' = Idle
    /\ gen' = IF gen.st = "closed" THEN NoGenerator ELSE gen
    /\ UNCHANGED <<deck, advanced>>

\* deck.reshuffle()
Reshuffle ==
    /\ last.op = "idle"
    /\ deck' = reshuffle(deck)
    /\ last' = [op |-> "reshuffle", arg |-> <<>>, pre |-> deck,
                ret |-> None, err |-> NoError]
    /\ advanced' = 0
    /\ gen' = Interleaved(gen)

\* deck.draw(n)
DrawWhite ==
    /\ last.op = "idle"
    /\ \E n \in 0..MaxDraw : \E o \in draw(deck, n) :
          /\ deck' = o.deck
          /\ last' = [op |-> "draw", arg |-> n, pre |-> deck,
                      ret |-> o.ret, err |-> o.err]
    /\ UNCHANGED <<gen, advanced>>

\* deck.discard(*cards)
Discard ==
    /\ last.op = "idle"
    /\ \E cards \in DiscardArgs :
          LET o == discard(deck, cards)
          IN  /\ deck' = o.deck
              /\ last' = [op |-> "discard", arg |-> cards, pre |-> deck,
                          ret |-> o.ret, err |-> o.err]
    /\ UNCHANGED <<gen, advanced>>

\* deck.new()
AdvanceBlackCard ==
    /\ last.op = "idle"
    /\ \E o \in new(deck) :
          /\ deck' = o.deck
          /\ last' = [op |-> "new", arg |-> <<>>, pre |-> deck,
                      ret |-> o.ret, err |-> o.err]
          /\ advanced' = IF o.err = NoError THEN advanced + 1 ELSE advanced
    /\ gen' = Interleaved(gen)

\* bool(deck)
IsPlayable ==
    /\ last.op = "idle"
    /\ last' = [op |-> "bool", arg |-> <<>>, pre |-> deck,
                ret |-> __bool__(deck), err |-> NoError]
    /\ UNCHANGED <<deck, gen, advanced>>

\* iter(deck): __iter__ returns next(self), a new generator that has run no
\* code yet.  The model follows the generator made last.
Rounds ==
    /\ last.op = "idle"
    /\ gen' = [st |-> "created", end |-> NoError, start |-> deck.black,
               yielded |-> <<>>, clean |-> TRUE]
    /\ last' = [op |-> "iter", arg |-> <<>>, pre |-> deck,
                ret |-> None, err |-> NoError]
    /\ UNCHANGED <<deck, advanced>>

\* next(g) on the generator, while it has not ended.
RoundsStep ==
    /\ last.op = "idle"
    /\ gen.st \in {"created", "suspended"}
    /\ \E o \in __next__(deck) :
          /\ deck' = o.deck
          /\ gen' = [gen EXCEPT
                       !.st = o.st,
                       !.end = IF o.st = "closed" THEN o.err ELSE NoError,
                       !.yielded = IF gen.clean /\ o.st = "suspended"
                                   THEN Append(@, o.ret) ELSE @]
          /\ last' = [op |-> "next", arg |-> <<>>, pre |-> deck,
                      ret |-> o.ret, err |-> o.err]
          /\ advanced' = IF o.err = NoError THEN advanced + 1 ELSE advanced

Next ==
    \/ Return
    \/ Reshuffle
    \/ DrawWhite
    \/ Discard
    \/ AdvanceBlackCard
    \/ IsPlayable
    \/ Rounds
    \/ RoundsStep

Spec == Init /\ [][Next]_vars

\* ------------------------------------------------------------------ claims

\* The current black card as a set: empty when current is None.
CurrentSet(d) == IF d.current = None THEN {} ELSE {d.current}

\* A call has been made and its outcome is in `last`.
Called(op) == last.op = op

\* C1: in every reachable state the undrawn black pool, the current black
\* card (when present) and the won set are pairwise disjoint and their union
\* is the master black pool.
C1_BlackPartition ==
    /\ deck.black \cup CurrentSet(deck) \cup deck.won = deck._black
    /\ deck.black \cap CurrentSet(deck) = {}
    /\ deck.black \cap deck.won = {}
    /\ CurrentSet(deck) \cap deck.won = {}

\* C2: in every reachable state the undrawn white pool, the in-play set and
\* the discarded set are pairwise disjoint and their union is the master
\* white pool.
C2_WhitePartition ==
    /\ deck.white \cup deck.in_play \cup deck.discarded = deck._white
    /\ deck.white \cap deck.in_play = {}
    /\ deck.white \cap deck.discarded = {}
    /\ deck.in_play \cap deck.discarded = {}

\* C3: draw(n) with 1 <= n <= |undrawn white| returns normally a set of
\* exactly n cards, each undrawn before the call, in play after it and no
\* longer undrawn; the undrawn pool shrinks by n and the in-play set grows by n.
C3_DrawSizeContract ==
    (Called("draw") /\ 1 <= last.arg /\ last.arg <= Cardinality(last.pre.white))
    => /\ last.err = NoError
       /\ Cardinality(last.ret) = last.arg
       /\ last.ret \subseteq last.pre.white
       /\ last.ret \subseteq deck.in_play
       /\ last.ret \cap deck.white = {}
       /\ Cardinality(deck.white) = Cardinality(last.pre.white) - last.arg
       /\ Cardinality(deck.in_play) = Cardinality(last.pre.in_play) + last.arg

\* C3's case: a draw of two of three undrawn cards while a card is in play.
C3_Witness ==
    /\ Called("draw")
    /\ last.arg = 2
    /\ Cardinality(last.pre.white) >= 2
    /\ last.pre.in_play # {}
    /\ last.err = NoError

\* C4: new() on a non-empty undrawn black pool moves the current card, if
\* there is one (whatever its value), into the won set, removes exactly one
\* card from the undrawn black pool, makes it the current card and returns
\* it; with no current card the won set stays empty.
C4_AdvanceEffect ==
    (Called("new") /\ last.pre.black # {})
    => /\ last.err = NoError
       /\ last.ret \in last.pre.black
       /\ deck.black = last.pre.black \ {last.ret}
       /\ deck.current = last.ret
       /\ last.pre.current # None
            => deck.won = last.pre.won \cup {last.pre.current}
       /\ last.pre.current = None => deck.won = {}

\* C5: reshuffle() gives the state of a deck freshly built from the same two
\* collections; no call changes the master collections; reshuffle() twice is
\* reshuffle() once.
C5_ReshuffleIsFresh ==
    /\ Called("reshuffle")
         => deck = [_black |-> last.pre._black, _white |-> last.pre._white,
                    black |-> last.pre._black, white |-> last.pre._white,
                    current |-> None, discarded |-> {}, in_play |-> {},
                    won |-> {}]
    /\ ~Called("idle")
         => /\ deck._black = last.pre._black
            /\ deck._white = last.pre._white
    /\ reshuffle(reshuffle(deck)) = reshuffle(deck)

\* C5's case: a reshuffle of a deck with won, discarded and in-play cards, a
\* current card and an emptied white pool.
C5_Witness ==
    /\ Called("reshuffle")
    /\ last.pre.won # {}
    /\ last.pre.discarded # {}
    /\ last.pre.in_play # {}
    /\ last.pre.current # None
    /\ last.pre.white = {}
    /\ last.pre.black # last.pre._black

\* C6: bool(deck) is False if and only if the undrawn black pool is empty and
\* (there is no current card or the in-play set is empty).
C6_ExhaustionSignalling ==
    Called("bool")
    => (last.ret = FALSE
          <=> (deck.black = {} /\ (deck.current = None \/ deck.in_play = {})))

\* C7: the generator of iter(deck), once the undrawn black pool is exhausted,
\* ends by the normal end of the sequence (StopIteration), not by an error.
C7_RoundsEndsCleanly ==
    gen.st = "closed" => gen.end = StopIteration

\* C8 as stated: a discard call given a card that is not in play fails with
\* the error naming that card, and when that card is the first argument no
\* set of the deck changes.
C8_DiscardNotInPlay_Original ==
    Called("discard")
    => \A i \in DOMAIN last.arg :
          last.arg[i] \notin last.pre.in_play
          => /\ last.err = CardNotInPlayError(last.arg[i])
             /\ i = 1 => deck = last.pre

\* C8 as amended: a discard call given a card that is not in play fails with
\* the not-in-play error; the error names that card when every argument before
\* it is a card in play not repeated in the call (no earlier argument fails
\* first); when that card is the first argument no set of the deck changes.
C8_DiscardNotInPlay ==
    Called("discard")
    => \A i \in DOMAIN last.arg :
          last.arg[i] \notin last.pre.in_play
          => /\ last.err.type = "KeyError"
             /\ last.err.msg = "not found in play"
             /\ (\A j \in 1..(i - 1) :
                    /\ last.arg[j] \in last.pre.in_play
                    /\ \A k \in 1..(j - 1) : last.arg[k] # last.arg[j])
                  => last.err = CardNotInPlayError(last.arg[i])
             /\ i = 1 => deck = last.pre

\* C8's case: a discard of a card that was discarded before, as the only
\* argument, while other cards are in play.
C8_Witness ==
    /\ Called("discard")
    /\ Len(last.arg) = 1
    /\ last.arg[1] \in last.pre.discarded
    /\ last.pre.in_play # {}
    /\ last.err = CardNotInPlayError(last.arg[1])

\* C9: draw(n) with n positive fails with the empty-pool error if and only
\* if n exceeds the number of undrawn white cards (and fails in no other way).
C9_DrawExhaustion ==
    (Called("draw") /\ last.arg >= 1)
    => /\ last.err = EmptyPoolError <=> last.arg > Cardinality(last.pre.white)
       /\ last.err \in {NoError, EmptyPoolError}

\* C9's case: a draw of more cards than the non-empty undrawn pool holds.
C9_Witness ==
    /\ Called("draw")
    /\ last.pre.white # {}
    /\ last.arg > Cardinality(last.pre.white)
    /\ last.err = EmptyPoolError

\* C10: new() fails with the empty-pool error exactly when the undrawn black
\* pool is empty; so on a deck of m black cards, counting from construction or
\* the last reshuffle, a call succeeds while fewer than m have, the m-th
\* success leaves the undrawn pool empty, the last remaining card current and
\* m-1 cards won, and the call after it fails.
C10_AdvanceExhaustion ==
    LET m == Cardinality(deck._black)
    IN  /\ Called("new")
          => /\ last.err = EmptyPoolError <=> last.pre.black = {}
             /\ last.err \in {NoError, EmptyPoolError}
        /\ advanced < m => deck.black # {}
        /\ advanced = m => deck.black = {}
        /\ (Called("new") /\ last.err = NoError /\ advanced = m)
          => /\ deck.black = {}
             /\ last.pre.black = {deck.current}
             /\ Cardinality(deck.won) = m - 1

\* The cards a discard call names, as a set.
ArgSet(cards) == {cards[i] : i \in DOMAIN cards}

\* C11: a discard call whose arguments are distinct cards in play succeeds,
\* moves each of them from the in-play set to the discarded set and changes
\* nothing else.
C11_DiscardEffect ==
    (/\ Called("discard")
     /\ ArgSet(last.arg) \subseteq last.pre.in_play
     /\ Cardinality(ArgSet(last.arg)) = Len(last.arg))
    => /\ last.err = NoError
       /\ deck = [last.pre EXCEPT !.in_play = @ \ ArgSet(last.arg),
                                  !.discarded = @ \cup ArgSet(last.arg)]

\* C11's case: a discard of two of three in-play cards after an earlier
\* discard.
C11_Witness ==
    /\ Called("discard")
    /\ Len(last.arg) = 2
    /\ last.arg[1] # last.arg[2]
    /\ ArgSet(last.arg) \subseteq last.pre.in_play
    /\ last.pre.in_play # ArgSet(last.arg)
    /\ deck.discarded = ArgSet(last.arg)
    /\ last.err = NoError

\* C12: the current card is absent if and only if no new() has succeeded
\* since construction or the last reshuffle; and no call other than
\* reshuffle() makes a present current card absent.
C12_CurrentPresence ==
    /\ deck.current = None <=> advanced = 0
    /\ (~Called("idle") /\ ~Called("reshuffle") /\ last.pre.current # None)
         => deck.current # None

\* C12's case: a new() that failed on the emptied pool after a round had
\* started; the current card is still there.
C12_Witness ==
    /\ Called("new")
    /\ last.err = EmptyPoolError
    /\ last.pre.current # None
    /\ deck.current = last.pre.current
    /\ advanced >= 1

\* The position of the argument a discard call fails at: the first that is
\* not in play or repeats an earlier argument; Len(cards) + 1 if there is none.
FirstFailing(cards, in_play) ==
    LET bad == {i \in DOMAIN cards :
                   \/ cards[i] \notin in_play
                   \/ \E k \in 1..(i - 1) : cards[k] = cards[i]}
    IN  IF bad = {} THEN Len(cards) + 1
        ELSE CHOOSE i \in bad : \A j \in bad : i <= j

\* C13: a discard call that fails at its i-th argument (the first not in play,
\* or the second occurrence of a repeated card) has moved exactly the
\* arguments before it from the in-play set to the discarded set; that
\* argument and the later ones are not processed, and the call is not undone.
C13_DiscardPartial ==
    LET i == FirstFailing(last.arg, last.pre.in_play)
        moved == {last.arg[k] : k \in 1..(i - 1)}
    IN  (Called("discard") /\ i <= Len(last.arg))
        => /\ last.err = CardNotInPlayError(last.arg[i])
           /\ deck = [last.pre EXCEPT !.in_play = @ \ moved,
                                      !.discarded = @ \cup moved]
           /\ \A j \in i..Len(last.arg) :
                 last.arg[j] \notin moved
                 => /\ last.arg[j] \in deck.in_play <=> last.arg[j] \in last.pre.in_play
                    /\ last.arg[j] \in deck.discarded <=> last.arg[j] \in last.pre.discarded

\* C13's case: a discard that failed at its second argument after moving the
\* first, which was in play.
C13_Witness ==
    /\ Called("discard")
    /\ Len(last.arg) >= 2
    /\ last.arg[1] \in last.pre.in_play
    /\ last.err = CardNotInPlayError(last.arg[2])
    /\ last.arg[1] \in deck.discarded
    /\ last.arg[1] \notin deck.in_play

\* C16: in every reachable state the undrawn white pool, the in-play set and
\* the discarded set are pairwise disjoint and each is a subset of the master
\* white pool.
C16_WhiteNeverDuplicated ==
    /\ deck.white \cap deck.in_play = {}
    /\ deck.white \cap deck.discarded = {}
    /\ deck.in_play \cap deck.discarded = {}
    /\ deck.white \subseteq deck._white
    /\ deck.in_play \subseteq deck._white
    /\ deck.discarded \subseteq deck._white

\* C16's case: a failed discard in a deck that has lost a white card to a
\* failed draw and holds cards in play and discarded.
C16_Witness ==
    /\ Called("discard")
    /\ last.err # NoError
    /\ deck.white \cup deck.in_play \cup deck.discarded # deck._white
    /\ deck.in_play # {}
    /\ deck.discarded # {}

\* C17: draw(n) with n greater than the number of undrawn white cards raises
\* the empty-pool error with the undrawn pool emptied and every other set,
\* in play and discarded included, as before the call.
C17_FailedDrawLosesCards ==
    (Called("draw") /\ last.arg > Cardinality(last.pre.white))
    => /\ last.err = EmptyPoolError
       /\ deck = [last.pre EXCEPT !.white = {}]

\* C17's case: a failed draw that took two undrawn cards with it, beside
\* cards in play and discarded.
C17_Witness ==
    /\ Called("draw")
    /\ last.err = EmptyPoolError
    /\ Cardinality(last.pre.white) = 2
    /\ last.pre.in_play # {}
    /\ deck.white = {}

\* C18: new() on an empty undrawn black pool with a current card present
\* raises the empty-pool error with the current card added to the won set
\* and still current; the same call again changes nothing further.
C18_FailedAdvanceResolves ==
    (Called("new") /\ last.pre.black = {} /\ last.pre.current # None)
    => /\ last.err = EmptyPoolError
       /\ deck.current = last.pre.current
       /\ deck.won = last.pre.won \cup {last.pre.current}
       /\ \A o \in new(deck) : o.deck = deck /\ o.err = EmptyPoolError

\* C19: draw and discard, failing or not, leave the undrawn black pool, the
\* current card and the won set as they were; new() and a step of the
\* generator, failing or not, leave the undrawn white pool, the in-play set
\* and the discarded set as they were; bool(deck) changes nothing.
C19_ColourIsolation ==
    /\ (Called("draw") \/ Called("discard"))
         => /\ deck.black = last.pre.black
            /\ deck.current = last.pre.current
            /\ deck.won = last.pre.won
    /\ (Called("new") \/ Called("next"))
         => /\ deck.white = last.pre.white
            /\ deck.in_play = last.pre.in_play
            /\ deck.discarded = last.pre.discarded
    /\ Called("bool") => deck = last.pre

\* C19's case: a step of the generator that advanced the round while white
\* cards were in play, discarded and undrawn.
C19_Witness ==
    /\ Called("next")
    /\ last.err = NoError
    /\ last.pre.current # None
    /\ deck.in_play # {}
    /\ deck.discarded # {}
    /\ deck.white # {}

\* The cards a sequence of yields holds, as a set.
Yielded(g) == {g.yielded[i] : i \in DOMAIN g.yielded}

\* C14: a generator run to its end with no other black-card call in between,
\* on a pool of k undrawn black cards, has yielded exactly k cards, all
\* distinct, the k cards undrawn at its start; each card is the current card
\* when it is yielded, and the card yielded before it is in the won set by
\* then.
C14_RoundsContent ==
    /\ (gen.clean /\ gen.st = "closed")
         => /\ Len(gen.yielded) = Cardinality(gen.start)
            /\ Cardinality(Yielded(gen)) = Len(gen.yielded)
            /\ Yielded(gen) = gen.start
    /\ (Called("next") /\ last.err = NoError /\ gen.clean)
         => /\ deck.current = last.ret
            /\ gen.yielded[Len(gen.yielded)] = last.ret
            /\ Len(gen.yielded) >= 2
                 => gen.yielded[Len(gen.yielded) - 1] \in deck.won

\* C15: on an exhausted undrawn black pool a step of a generator yields no
\* card and changes nothing in the deck, for every generator started there;
\* the pool stays exhausted under every call but reshuffle(); and a generator
\* started on the reshuffled deck and run to its end yields every card of the
\* master black pool.
C15_RoundsNotRestartable ==
    /\ (Called("next") /\ last.pre.black = {})
         => /\ last.ret = None
            /\ last.err \in {StopIteration, RuntimeError}
            /\ gen.st = "closed"
            /\ deck = last.pre
    /\ (~Called("idle") /\ ~Called("reshuffle") /\ last.pre.black = {})
         => deck.black = {}
    /\ Called("reshuffle") => deck.black = deck._black
    /\ (gen.clean /\ gen.st = "closed" /\ gen.start = deck._black)
         => Yielded(gen) = deck._black

\* C15's case: a generator made on the pool that earlier rounds exhausted
\* has ended at its first step, with nothing yielded and the deck as it was.
C15_Witness ==
    /\ Called("next")
    /\ gen.st = "closed"
    /\ gen.clean
    /\ gen.start = {}
    /\ gen.yielded = <<>>
    /\ Cardinality(deck._black) >= 2
    /\ deck.won # {}
    /\ deck = last.pre

====
